---- MODULE Spec2Model ----
(***************************************************************************)
(* Model of cli-file-sync: the manifest-driven download engine.            *)
(*   src/src/downloader.rs  Downloader::download_files / download_file /   *)
(*                          attempt_download / get_download_url            *)
(*   src/src/schema.rs      DrupalFileAsset::get_local_path                *)
(*   src/src/main.rs        get_changed_assets, download_metadata,         *)
(*                          handle_sync_command                            *)
(* Strings that the code trims or joins are sequences of one-character     *)
(* strings; other strings are TLA+ strings.                                *)
(***************************************************************************)
EXTENDS Integers, Sequences, FiniteSets, TLC

\* ---------------------------------------------------------------- bounds
NumAssets == 3
MaxRetriesBound == 2
MaxConcurrentBound == 2
MaxSize == 2
MaxManifestLen == 2
MaxPathLen == 3
MaxEarlierRecords == 1
MaxTtl == 2
MaxTime == 4

\* a missing string-valued result (Option::None of an error message, a result)
None == "None"
\* a local of download_file before the `let` that declares it
Undeclared == "Undeclared"
\* Option<T> of the other values: <<>> is None, <<v>> is Some(v)
NoneOpt == <<>>
Some(v) == <<v>>
IsSome(o) == o # <<>>
Unwrap(o) == o[1]

\* ------------------------------------------------------- program constants
\* "downloads", the root download_file resolves every destination against
DownloadsRoot == <<"d", "o", "w", "n", "l", "o", "a", "d", "s">>
\* a base URL with a trailing separator
BaseUrl == <<"h", "/">>
Sep == "/"

\* the two classes of response.status(): is_success() or not
HttpOk == "200 OK"
HttpServerError == "500 Internal Server Error"

\* DownloadConfig::default()
DefaultMaxConcurrent == 3
DefaultDownloadDelay == 100
DefaultMaxRetries == 3
DefaultDownloadTimeout == 30
\* the default_value_t of the sync command's arguments
CliDefaultDownloadDelay == 100
CliDefaultDownloadTimeout == 60
CliDefaultMaxRetries == 3

VARIABLES
    run_pc,            \* where the sync command is ("library": no command runs)
    cli,               \* the arguments of the sync command
    remote,            \* the body the metadata source holds
    cache,             \* <destination>/assets.json
    previous,          \* history: assets.json when the run started
    run_result,        \* what the sync command returned
    env,               \* what the network and the filesystem can answer
    config,            \* DownloadConfig of the Downloader
    assets,            \* the slice handed to download_files
    next_idx,          \* position of stream::iter(assets)
    queue,             \* Buffered's in-progress queue, in input order
    sched_pc,          \* where download_files is
    result,            \* what download_files returned
    tpc,               \* per task: state of its download_file future
    retries,           \* per task: the local `retries`
    last_error,        \* per task: the local `last_error`
    failed_downloads,  \* the shared Vec<FailedDownload>
    files,             \* local filesystem: destination path -> byte length
    report,            \* failed_downloads.json
    attempts,          \* history: attempt_download calls per task
    requests,          \* history: requests sent per task
    recorded,          \* history: records appended per task
    fetched,           \* history: per task, some request got a success status
    writes,            \* history: every fs::write of an attempt
    waits,             \* history: per task, the seconds of each backoff sleep
    last_status,       \* history: per task, the status its latest attempt received
    auth_sent,         \* history: the credentials the requests of each stage carried
    call,              \* a helper function called on its own, with its arguments
    ret                \* what that call returned

runVars == <<run_pc, cli, remote, cache, previous, run_result>>

callVars == <<call, ret>>

vars == <<runVars, callVars, auth_sent, waits, last_status, env, config, assets, next_idx, queue, sched_pc, result, tpc, retries,
          last_error, failed_downloads, files, report, attempts, requests,
          recorded, fetched, writes>>

\* ------------------------------------------------------------- strings
RECURSIVE trim_start_matches(_)
trim_start_matches(s) ==
    IF s # <<>> /\ Head(s) = Sep THEN trim_start_matches(Tail(s)) ELSE s

RECURSIVE trim_end_matches(_)
trim_end_matches(s) ==
    IF s # <<>> /\ s[Len(s)] = Sep
    THEN trim_end_matches(SubSeq(s, 1, Len(s) - 1))
    ELSE s

get_local_path_untrimmed(asset, base_path) ==
    base_path \o <<Sep>> \o (IF asset.path = <<>> THEN asset.filename ELSE asset.path)

\* DrupalFileAsset::get_local_path
get_local_path(asset, base_path) ==
    IF asset.path = <<>>
    THEN trim_end_matches(base_path) \o <<Sep>> \o asset.filename
    ELSE trim_end_matches(base_path) \o <<Sep>> \o trim_start_matches(asset.path)

\* Downloader::get_download_url; NoneOpt models the Err of a missing base URL
get_download_url(asset, cfg) ==
    IF ~IsSome(cfg.base_url)
    THEN NoneOpt
    ELSE Some(trim_end_matches(Unwrap(cfg.base_url)) \o <<Sep>>
              \o trim_start_matches(asset.path))

\* ------------------------------------------------------------- inputs
Letters == <<"a", "b", "c", "d", "e", "f">>

SizeOfIndex(i) == ((i - 1) % MaxSize) + 1

\* asset i of the batch: odd positions carry no path (the filename is used)
AssetAt(i) ==
    [id       |-> Letters[i],
     filename |-> <<Letters[i]>>,
     uri      |-> "public://",
     path     |-> IF i % 2 = 1 THEN <<>> ELSE <<Sep, "p", Sep, Letters[i]>>,
     mime     |-> "image/png",
     size     |-> SizeOfIndex(i),
     changed  |-> 1]

Batch == [i \in 1..NumAssets |-> AssetAt(i)]

Configs ==
    [max_concurrent : 1..MaxConcurrentBound,
     download_delay : {0, 1},
     max_retries    : 0..MaxRetriesBound,
     download_timeout : {DefaultDownloadTimeout},
     max_file_size  : {NoneOpt} \cup {Some(m) : m \in 1..MaxSize},
     base_url       : {Some(BaseUrl)},
     username       : {NoneOpt},
     password       : {NoneOpt}]

\* Downloader::new: the Authorization header, made when both the username
\* and the password of the config are given (base64 of "username:password",
\* kept as the pair)
auth_header(cfg) ==
    IF IsSome(cfg.username) /\ IsSome(cfg.password)
    THEN Some(<<Unwrap(cfg.username), Unwrap(cfg.password)>>)
    ELSE NoneOpt

\* download_metadata: request.basic_auth(username, Some(password)) when both
\* are given
basic_auth(username, password) ==
    IF IsSome(username) /\ IsSome(password)
    THEN Some(<<Unwrap(username), Unwrap(password)>>)
    ELSE NoneOpt

NoRequest == [metadata |-> {}, files |-> {}]

\* the configurations of the batch runs: no size limit, or one that only the
\* largest declared size exceeds
BatchConfigs ==
    {c \in Configs : c.max_file_size \in {NoneOpt, Some(MaxSize - 1)}}

\* DownloadConfig::default()
DefaultConfig ==
    [max_concurrent |-> DefaultMaxConcurrent,
     download_delay |-> DefaultDownloadDelay,
     download_timeout |-> DefaultDownloadTimeout,
     max_retries    |-> DefaultMaxRetries,
     max_file_size  |-> NoneOpt,
     base_url       |-> NoneOpt,
     username       |-> NoneOpt,
     password       |-> NoneOpt]

Tasks == 1..Len(assets)

DestOf(i) == get_local_path(assets[i], DownloadsRoot)

\* what the server and the network can answer to one request
Responses ==
    {[kind |-> "error", status |-> "none", len |-> 0]} \cup
    [kind : {"response"}, status : {HttpOk, HttpServerError}, len : 1..MaxSize]

FsOutcomes == {"ok", "write_err", "perm_err"}

\* every answer
EnvAll ==
    [responses |-> Responses, fs |-> FsOutcomes, mkdir |-> BOOLEAN,
     report |-> BOOLEAN, metadata |-> {}]
\* the answers of a server that responds to every request, over a disk on
\* which only creating a directory or saving the report can fail
EnvServer ==
    [responses |-> {r \in Responses : r.kind = "response"}, fs |-> {"ok"},
     mkdir |-> BOOLEAN, report |-> BOOLEAN, metadata |-> {}]

Terminal == {"Succeeded", "Failed"}
InFlightStates == {"CreatingDir", "Attempting", "Backoff"}

\* FailedDownload (the timestamp is not modelled)
FailedDownload(asset, error) ==
    [filename |-> asset.filename, path |-> asset.path, error |-> error]

\* ------------------------------------------------------------- Init
\* no sync command: the Downloader is used as a library
NoRun ==
    /\ run_pc = "library"
    /\ cli = NoneOpt
    /\ remote = NoneOpt
    /\ cache = NoneOpt
    /\ previous = NoneOpt
    /\ run_result = None

\* no helper function is called on its own
NoCall ==
    /\ call = [fn |-> "none"]
    /\ ret = NoneOpt

\* Downloader::new(cfg) followed by the entry of download_files(batch)
InitState(e, cfg, batch) ==
    /\ NoRun
    /\ env = e
    /\ config = cfg
    /\ assets = batch
    /\ next_idx = 1
    /\ queue = <<>>
    /\ sched_pc = "next"
    /\ result = None
    /\ tpc = [i \in 1..Len(batch) |-> "Pending"]
    /\ retries = [i \in 1..Len(batch) |-> 0]
    /\ last_error = [i \in 1..Len(batch) |-> Undeclared]
    /\ failed_downloads = <<>>
    /\ files = [p \in {get_local_path(batch[i], DownloadsRoot) : i \in 1..Len(batch)} |-> 0]
    /\ report = NoneOpt
    /\ attempts = [i \in 1..Len(batch) |-> 0]
    /\ requests = [i \in 1..Len(batch) |-> 0]
    /\ recorded = [i \in 1..Len(batch) |-> 0]
    /\ fetched = [i \in 1..Len(batch) |-> FALSE]
    /\ writes = {}
    /\ waits = [i \in 1..Len(batch) |-> <<>>]
    /\ last_status = [i \in 1..Len(batch) |-> "none"]
    /\ auth_sent = NoRequest
    /\ NoCall

\* download_files on a batch of NumAssets assets
Init == \E cfg \in BatchConfigs : InitState(EnvServer, cfg, Batch)

\* a record without `size`: downloader.rs reads asset.size as a u64
\* (downloader.rs:149, 229), and `#[serde(default)]` gives a u64 the value 0
AbsentSize == 0

SizelessAsset == [AssetAt(1) EXCEPT !.size = AbsentSize]

FileAssets == {AssetAt(i) : i \in 1..NumAssets} \cup {SizelessAsset}

\* download_files on one asset, with every answer of the environment
InitFile ==
    \E cfg \in Configs, a \in FileAssets : InitState(EnvAll, cfg, <<a>>)

\* ------------------------------------------------------ the scheduler
\* Buffered::poll_next: the queue is filled from the source while it holds
\* fewer than max futures; finished futures not yet yielded still count
CanAdmitUnbounded == next_idx <= Len(assets)

CanAdmit == Len(queue) < config.max_concurrent /\ next_idx <= Len(assets)

Admit ==
    /\ sched_pc = "next"
    /\ CanAdmit
    /\ queue' = Append(queue, next_idx)
    /\ next_idx' = next_idx + 1
    /\ UNCHANGED <<runVars, callVars, auth_sent, waits, last_status, env, config,
                   assets, sched_pc, result, tpc, retries, last_error,
                   failed_downloads, files, report, attempts, requests,
                   recorded, fetched, writes>>

PolledNever(i) == FALSE

\* a queued future is polled only while download_files awaits stream.next()
Polled(i) ==
    /\ sched_pc = "next"
    /\ ~CanAdmit
    /\ \E k \in 1..Len(queue) : queue[k] = i

\* ------------------------------------------------------ download_file
\* failed_downloads.lock().await.push(..): the guard is taken and dropped in
\* one statement with no suspension point in between
pushOverwriting(vec, rec) == <<rec>>

push(vec, rec) == Append(vec, rec)

SizeLimitNever(asset, cfg) == FALSE

SizeLimitAtLeast(asset, cfg) ==
    IsSome(cfg.max_file_size) /\ asset.size >= Unwrap(cfg.max_file_size)

SizeLimitExceeded(asset, cfg) ==
    IsSome(cfg.max_file_size) /\ asset.size > Unwrap(cfg.max_file_size)

\* the first poll of download_file: the size check
Begin(i) ==
    /\ Polled(i)
    /\ tpc[i] = "Pending"
    /\ IF SizeLimitExceeded(assets[i], config)
       THEN /\ failed_downloads' =
                  push(failed_downloads, FailedDownload(assets[i], "SizeLimit"))
            /\ recorded' = [recorded EXCEPT ![i] = @ + 1]
            /\ tpc' = [tpc EXCEPT ![i] = "Failed"]
       ELSE /\ tpc' = [tpc EXCEPT ![i] = "CreatingDir"]
            /\ UNCHANGED <<failed_downloads, recorded>>
    /\ UNCHANGED <<runVars, callVars, auth_sent, waits, last_status, env, config,
                   assets, next_idx, queue, sched_pc, result, retries,
                   last_error, files, report, attempts, requests, fetched, writes>>

\* the `while retries < config.max_retries` test
LoopContinuesOnceMore(r, cfg) == r <= cfg.max_retries

LoopContinues(r, cfg) == r < cfg.max_retries

\* leaving the retry loop without a success: the record is pushed only when
\* last_error is Some
Exhausted(i, err) ==
    /\ tpc' = [tpc EXCEPT ![i] = "Failed"]
    /\ IF err # None
       THEN /\ failed_downloads' =
                  push(failed_downloads, FailedDownload(assets[i], err))
            /\ recorded' = [recorded EXCEPT ![i] = @ + 1]
       ELSE UNCHANGED <<failed_downloads, recorded>>

\* fs::create_dir_all(dest_dir).await? and the entry of the retry loop
DirDone(i) ==
    /\ Polled(i)
    /\ tpc[i] = "CreatingDir"
    /\ \E ok \in env.mkdir :
         IF ~ok
         THEN /\ tpc' = [tpc EXCEPT ![i] = "Failed"]
              /\ UNCHANGED <<failed_downloads, recorded, attempts>>
              /\ UNCHANGED last_error
         ELSE /\ last_error' = [last_error EXCEPT ![i] = None]
              /\ IF LoopContinues(0, config)
                 THEN /\ tpc' = [tpc EXCEPT ![i] = "Attempting"]
                      /\ attempts' = [attempts EXCEPT ![i] = @ + 1]
                      /\ UNCHANGED <<failed_downloads, recorded>>
                 ELSE /\ Exhausted(i, None)
                      /\ UNCHANGED attempts
    /\ UNCHANGED <<runVars, callVars, auth_sent, waits, last_status, env, config,
                   assets, next_idx, queue, sched_pc, result, retries,
                   files, report, requests, fetched, writes>>

\* Downloader::attempt_download as a function of what the network and the
\* filesystem answer: the error (None for Ok), whether a request was sent
\* and whether the bytes reached the destination
SizeUnchecked(asset, resp) == TRUE

SizeMatches(asset, resp) == resp.len = asset.size

attempt_download(asset, cfg, resp, fs) ==
    IF ~IsSome(get_download_url(asset, cfg))
    THEN [err |-> "NoBaseUrl", sent |-> FALSE, wrote |-> FALSE]
    ELSE IF resp.kind = "error"
    THEN [err |-> "Request", sent |-> TRUE, wrote |-> FALSE]
    ELSE IF resp.status # HttpOk
    THEN [err |-> "HTTP 500", sent |-> TRUE, wrote |-> FALSE]
    ELSE IF ~SizeMatches(asset, resp)
    THEN [err |-> "SizeMismatch", sent |-> TRUE, wrote |-> FALSE]
    ELSE IF fs = "write_err"
    THEN [err |-> "Write", sent |-> TRUE, wrote |-> FALSE]
    ELSE IF fs = "perm_err"
    THEN [err |-> "Permissions", sent |-> TRUE, wrote |-> TRUE]
    ELSE [err |-> None, sent |-> TRUE, wrote |-> TRUE]

\* a failed attempt is recorded once the loop is left, as the last error
RecordAfterFailureUnknown(recorder, asset, err, exhausted) ==
    IF exhausted THEN push(recorder, FailedDownload(asset, "Unknown")) ELSE recorder

RecordAfterFailureEager(recorder, asset, err, exhausted) ==
    push(recorder, FailedDownload(asset, err))

RecordAfterFailure(recorder, asset, err, exhausted) ==
    IF exhausted THEN push(recorder, FailedDownload(asset, err)) ELSE recorder

\* the seconds of sleep(Duration::from_secs(1 << retries)); the shift stays
\* far below the 64 bits of the u64 for every max_retries considered
BackoffSecsFromOne(r) == 2 ^ (r - 1)

BackoffSecs(r) == 2 ^ r

\* one attempt_download call returns inside the retry loop
AttemptDone(i) ==
    /\ Polled(i)
    /\ tpc[i] = "Attempting"
    /\ \E resp \in env.responses, fs \in env.fs :
         LET r == attempt_download(assets[i], config, resp, fs) IN
         /\ requests' = [requests EXCEPT ![i] = IF r.sent THEN @ + 1 ELSE @]
         /\ fetched' = [fetched EXCEPT ![i] =
                           @ \/ (r.sent /\ resp.kind = "response" /\ resp.status = HttpOk)]
         /\ IF r.wrote
            THEN /\ files' = [files EXCEPT ![DestOf(i)] = resp.len]
                 /\ writes' = writes \cup
                       {[task |-> i, status |-> resp.status, len |-> resp.len,
                         ok |-> r.err = None]}
            ELSE UNCHANGED <<files, writes>>
         /\ last_status' = [last_status EXCEPT ![i] =
                               IF r.sent THEN resp.status ELSE "none"]
         /\ auth_sent' = IF r.sent
                          THEN [auth_sent EXCEPT !.files = @ \cup {auth_header(config)}]
                          ELSE auth_sent
         /\ waits' = IF r.err # None /\ LoopContinues(retries[i] + 1, config)
                      THEN [waits EXCEPT ![i] = Append(@, BackoffSecs(retries[i] + 1))]
                      ELSE waits
         /\ IF r.err = None
            THEN /\ tpc' = [tpc EXCEPT ![i] = "Succeeded"]
                 /\ UNCHANGED <<retries, last_error, failed_downloads, recorded>>
            ELSE /\ last_error' = [last_error EXCEPT ![i] = r.err]
                 /\ retries' = [retries EXCEPT ![i] = @ + 1]
                 /\ tpc' = [tpc EXCEPT ![i] =
                               IF LoopContinues(retries[i] + 1, config)
                               THEN "Backoff" ELSE "Failed"]
                 /\ failed_downloads' =
                       RecordAfterFailure(failed_downloads, assets[i], r.err,
                                          ~LoopContinues(retries[i] + 1, config))
                 /\ recorded' = [recorded EXCEPT ![i] =
                                    @ + Len(failed_downloads') - Len(failed_downloads)]
    /\ UNCHANGED <<runVars, callVars, env, config, assets, next_idx, queue, sched_pc, result,
                   report, attempts>>

\* sleep(1 << retries) is over: the next iteration calls attempt_download
BackoffDone(i) ==
    /\ Polled(i)
    /\ tpc[i] = "Backoff"
    /\ tpc' = [tpc EXCEPT ![i] = "Attempting"]
    /\ attempts' = [attempts EXCEPT ![i] = @ + 1]
    /\ UNCHANGED <<runVars, callVars, auth_sent, waits, last_status, env, config,
                   assets, next_idx, queue, sched_pc, result, retries,
                   last_error, failed_downloads, files, report, requests,
                   recorded, fetched, writes>>

\* ------------------------------------------------- download_files' loop
\* the Result<()> a finished download_file future yields
TaskResult(i) == IF tpc[i] = "Succeeded" THEN "Ok" ELSE "Err"

\* the loop body: an Err is printed, then the pacing delay, then the loop
\* goes on whatever the result was
OnResultPropagating(res, cfg) ==
    IF res = "Err" THEN "done" ELSE IF cfg.download_delay > 0 THEN "delay" ELSE "next"

OnResultNoDelay(res, cfg) == "next"

OnResult(res, cfg) == IF cfg.download_delay > 0 THEN "delay" ELSE "next"

\* the positions of the queue whose output stream.next() may yield:
\* FuturesOrdered yields the head of the queue once it has finished
ReadyUnordered(q, states) == {k \in 1..Len(q) : states[q[k]] \in Terminal}

Ready(q, states) == {k \in 1..Len(q) : k = 1 /\ states[q[k]] \in Terminal}

TakeResult ==
    /\ sched_pc = "next"
    /\ ~CanAdmit
    /\ \E k \in Ready(queue, tpc) :
         /\ queue' = SubSeq(queue, 1, k - 1) \o SubSeq(queue, k + 1, Len(queue))
         /\ sched_pc' = OnResult(TaskResult(queue[k]), config)
    /\ UNCHANGED <<runVars, callVars, auth_sent, waits, last_status, env, config,
                   assets, next_idx, result, tpc, retries, last_error,
                   failed_downloads, files, report, attempts, requests,
                   recorded, fetched, writes>>

\* sleep(download_delay) is over
DelayDone ==
    /\ sched_pc = "delay"
    /\ sched_pc' = "next"
    /\ UNCHANGED <<runVars, callVars, auth_sent, waits, last_status, env, config,
                   assets, next_idx, queue, result, tpc, retries,
                   last_error, failed_downloads, files, report, attempts,
                   requests, recorded, fetched, writes>>

\* stream.next() is None: the source is exhausted and the queue is empty
SourceDone == next_idx > Len(assets)

StreamDone == queue = <<>> /\ next_idx > Len(assets)

LoopExit ==
    /\ sched_pc = "next"
    /\ StreamDone
    /\ sched_pc' = "report"
    /\ UNCHANGED <<runVars, callVars, auth_sent, waits, last_status, env, config,
                   assets, next_idx, queue, result, tpc, retries,
                   last_error, failed_downloads, files, report, attempts,
                   requests, recorded, fetched, writes>>

\* `if !failed_downloads.is_empty()`
ReportAlways(recorder) == TRUE

ReportDue(recorder) == recorder # <<>>

\* the report is saved when there are failures; a failed write is returned
SaveReport ==
    /\ sched_pc = "report"
    /\ sched_pc' = "done"
    /\ IF ReportDue(failed_downloads)
       THEN \E ok \in env.report :
              IF ok
              THEN report' = Some(failed_downloads) /\ result' = "Ok"
              ELSE UNCHANGED report /\ result' = "ReportWriteError"
       ELSE UNCHANGED report /\ result' = "Ok"
    /\ UNCHANGED <<runVars, callVars, auth_sent, waits, last_status, env, config,
                   assets, next_idx, queue, tpc, retries, last_error,
                   failed_downloads, files, attempts, requests, recorded,
                   fetched, writes>>

\* ------------------------------------------------------ the sync command
\* DrupalFileAsset::validate: the first missing field, "Ok" when none is
validate(asset) ==
    IF asset.id = "" THEN "Missing ID"
    ELSE IF asset.filename = <<>> THEN "Missing filename"
    ELSE IF asset.uri = "" THEN "Missing URI"
    ELSE IF asset.mime = "" THEN "Missing MIME type"
    ELSE "Ok"

\* get_changed_assets: old_map keeps, for an id that occurs twice in
\* old_assets, the last record with it
OldMapGet(old_assets, id) ==
    LET at == {k \in 1..Len(old_assets) : old_assets[k].id = id} IN
    IF at = {} THEN NoneOpt
    ELSE Some(old_assets[CHOOSE k \in at : \A j \in at : j <= k])

IsChangedAlways(old_assets, new_asset) == TRUE

IsChanged(old_assets, new_asset) ==
    LET old == OldMapGet(old_assets, new_asset.id) IN
    IF IsSome(old) THEN Unwrap(old).changed # new_asset.changed ELSE TRUE

get_changed_assets(old_assets, new_assets) ==
    SelectSeq(new_assets, LAMBDA a : IsChanged(old_assets, a))

ParseMetadataLenient(body) == Some(body.files)

\* the two serde_json::from_str attempts of download_metadata: the wrapper
\* shape, then the bare array; NoneOpt is the parse error
ParseMetadata(body) ==
    IF body.shape \in {"wrapper", "array"} THEN Some(body.files) ELSE NoneOpt

\* main, Commands::Sync: the metadata source is required
Main ==
    /\ run_pc = "main"
    /\ IF IsSome(cli.assets_metadata)
       THEN run_pc' = "metadata" /\ UNCHANGED run_result
       ELSE run_pc' = "finished" /\ run_result' = "NoMetadataError"
    /\ UNCHANGED <<callVars, auth_sent, waits, last_status, cli, remote, cache, previous, env, config, assets, next_idx,
                   queue, sched_pc, result, tpc, retries, last_error,
                   failed_downloads, files, report, attempts, requests,
                   recorded, fetched, writes>>

\* what can happen to download_metadata for a source of each kind
MetadataOutcomes(kind) ==
    IF kind = "url"
    THEN {"dir_err", "send_err", "status_err", "write_err", "ok"}
    ELSE {"dir_err", "read_err", "ok"}

\* the error download_metadata returns for each failure
MetadataError(o) ==
    CASE o = "dir_err" -> "CreateDirError"
      [] o = "send_err" -> "SendError"
      [] o = "status_err" -> "HttpStatusError"
      [] o = "write_err" -> "CacheWriteError"
      [] o = "read_err" -> "ReadError"

\* assets.json between the File::create and the end of the write_all of
\* tokio::fs::write: the file exists and is empty
TruncatedFile == [shape |-> "truncated", files |-> <<>>]

\* the end of download_metadata: the content is parsed
ParseContent ==
    LET parsed == ParseMetadata(remote) IN
    IF ~IsSome(parsed)
    THEN /\ run_pc' = "finished"
         /\ run_result' = "ParseError"
         /\ UNCHANGED assets
    ELSE /\ run_pc' = "configure"
         /\ assets' = Unwrap(parsed)
         /\ UNCHANGED run_result

\* download_metadata returns the error of the step that failed
MetadataFails(o) ==
    /\ run_pc' = "finished"
    /\ run_result' = MetadataError(o)
    /\ UNCHANGED <<assets, cache>>

\* download_metadata, called by handle_sync_command, up to the content: a
\* local file is read and parsed; a body fetched from a URL is first
\* written to assets.json, and the write begins by truncating the file
\* unless the file cannot be created
\* main hands download_username and download_password to
\* handle_sync_command, which hands them on to download_metadata
MetadataUsername(args) == args.download_username

MetadataPassword(args) == args.download_password

DownloadMetadata ==
    /\ run_pc = "metadata"
    /\ \E o \in MetadataOutcomes(Unwrap(cli.assets_metadata)) \cap env.metadata :
         IF o \in {"dir_err", "send_err", "status_err", "read_err"}
         THEN MetadataFails(o)
         ELSE IF Unwrap(cli.assets_metadata) = "url"
         THEN \/ o = "write_err" /\ MetadataFails(o)
              \/ /\ run_pc' = "caching"
                 /\ cache' = Some(TruncatedFile)
                 /\ UNCHANGED <<assets, run_result>>
         ELSE ParseContent /\ UNCHANGED cache
    \* a URL source is requested once the destination directory exists
    /\ auth_sent' =
         IF Unwrap(cli.assets_metadata) = "url" /\ "dir_err" \notin env.metadata
         THEN [auth_sent EXCEPT !.metadata =
                  @ \cup {basic_auth(MetadataUsername(cli), MetadataPassword(cli))}]
         ELSE auth_sent
    /\ UNCHANGED <<callVars, waits, last_status, cli, remote, previous, env, config, next_idx,
                   queue, sched_pc,
                   result, tpc, retries, last_error, failed_downloads, files,
                   report, attempts, requests, recorded, fetched, writes>>

\* tokio::fs::write(&metadata_path, &content) ends: the content is in
\* assets.json and is parsed, or the write failed after the truncation
WriteCache ==
    /\ run_pc = "caching"
    /\ \E o \in env.metadata :
         IF o = "write_err"
         THEN MetadataFails(o)
         ELSE cache' = Some(remote) /\ ParseContent
    /\ UNCHANGED <<callVars, auth_sent, waits, last_status, cli, remote, previous, env, config, next_idx,
                   queue, sched_pc,
                   result, tpc, retries, last_error, failed_downloads, files,
                   report, attempts, requests, recorded, fetched, writes>>

\* the DownloadConfig handle_sync_command builds
SyncConfig(args) ==
    [DefaultConfig EXCEPT !.max_concurrent = args.max_concurrent,
                          !.base_url = Some(args.base_url),
                          !.username = args.download_username,
                          !.password = args.download_password]

\* the assets handle_sync_command hands to download_files
ScheduledAssets(loaded, old) == loaded

\* handle_sync_command after download_metadata: Downloader::new(config) and
\* the entry of download_files
StartDownloads ==
    /\ run_pc = "configure"
    /\ run_pc' = "download"
    /\ config' = SyncConfig(cli)
    /\ assets' = ScheduledAssets(assets, previous)
    /\ next_idx' = 1
    /\ queue' = <<>>
    /\ sched_pc' = "next"
    /\ tpc' = [i \in 1..Len(assets') |-> "Pending"]
    /\ retries' = [i \in 1..Len(assets') |-> 0]
    /\ last_error' = [i \in 1..Len(assets') |-> Undeclared]
    /\ attempts' = [i \in 1..Len(assets') |-> 0]
    /\ requests' = [i \in 1..Len(assets') |-> 0]
    /\ recorded' = [i \in 1..Len(assets') |-> 0]
    /\ fetched' = [i \in 1..Len(assets') |-> FALSE]
    /\ waits' = [i \in 1..Len(assets') |-> <<>>]
    /\ last_status' = [i \in 1..Len(assets') |-> "none"]
    /\ UNCHANGED <<callVars, auth_sent, cli, remote, cache, previous, run_result, env, result,
                   failed_downloads, files, report, writes>>

\* download_files(..).await? and the Ok(()) of handle_sync_command
SyncReturn ==
    /\ run_pc = "download"
    /\ sched_pc = "done"
    /\ run_pc' = "finished"
    /\ run_result' = result
    /\ UNCHANGED <<callVars, auth_sent, waits, last_status, cli, remote, cache, previous, env, config, assets, next_idx,
                   queue, sched_pc, result, tpc, retries, last_error,
                   failed_downloads, files, report, attempts, requests,
                   recorded, fetched, writes>>

Next ==
    \/ Admit
    \/ \E i \in Tasks : Begin(i)
    \/ \E i \in Tasks : DirDone(i)
    \/ \E i \in Tasks : AttemptDone(i)
    \/ \E i \in Tasks : BackoffDone(i)
    \/ TakeResult
    \/ DelayDone
    \/ LoopExit
    \/ SaveReport

Spec == Init /\ [][Next]_vars

\* download_files on the batch with a pacing delay between results
InitPaced ==
    \E cfg \in {c \in BatchConfigs : c.download_delay > 0} :
        InitState(EnvServer, cfg, Batch)

\* the runtime keeps running download_files: every sleep ends, every
\* request completes or times out, every filesystem call returns
SpecLive == InitPaced /\ [][Next]_vars /\ WF_vars(Next)

SpecFile == InitFile /\ [][Next]_vars

\* download_files(&self, assets) is called again on the same Downloader once
\* the previous call has returned: config, client and failed_downloads are
\* the fields of the Downloader, everything else belongs to the call. The
\* histories start again with the call; calls are counted no further once
\* the recorder holds more than MaxEarlierRecords records.
DownloadFilesAgain ==
    /\ sched_pc = "done"
    /\ Len(failed_downloads) <= MaxEarlierRecords
    /\ sched_pc' = "next"
    /\ next_idx' = 1
    /\ queue' = <<>>
    /\ result' = None
    /\ tpc' = [i \in Tasks |-> "Pending"]
    /\ retries' = [i \in Tasks |-> 0]
    /\ last_error' = [i \in Tasks |-> Undeclared]
    /\ attempts' = [i \in Tasks |-> 0]
    /\ requests' = [i \in Tasks |-> 0]
    /\ recorded' = [i \in Tasks |-> 0]
    /\ fetched' = [i \in Tasks |-> FALSE]
    /\ writes' = {}
    /\ waits' = [i \in Tasks |-> <<>>]
    /\ last_status' = [i \in Tasks |-> "none"]
    /\ UNCHANGED <<runVars, callVars, auth_sent, env, config, assets,
                   failed_downloads, files, report>>

NextAgain ==
    \/ Next
    \/ DownloadFilesAgain

SpecAgain == InitFile /\ [][NextAgain]_vars

\* ---------------------------------------------------- the sync command's runs
ChangedValues == {100, 200}

ManifestAsset(k, ch) ==
    [id       |-> Letters[k],
     filename |-> <<Letters[k]>>,
     uri      |-> "public://",
     path     |-> <<>>,
     mime     |-> "image/png",
     size     |-> 1,
     changed  |-> ch]

\* the manifests of up to MaxManifestLen records with distinct ids
Manifests ==
    UNION {[1..n -> ChangedValues] : n \in 0..MaxManifestLen}

ManifestOf(m) == [k \in 1..Len(m) |-> ManifestAsset(k, m[k])]

Bodies ==
    {[shape |-> "other", files |-> <<>>]} \cup
    {[shape |-> sh, files |-> ManifestOf(m)] :
        sh \in {"wrapper", "array"}, m \in Manifests}

\* a manifest whose record k has the field f empty; an invalid body has
\* one such field in its last record
Fields == {"id", "filename", "uri", "mime"}

Invalidate(manifest, k, f) ==
    [manifest EXCEPT ![k] =
        CASE f = "id" -> [@ EXCEPT !.id = ""]
          [] f = "filename" -> [@ EXCEPT !.filename = <<>>]
          [] f = "uri" -> [@ EXCEPT !.uri = ""]
          [] f = "mime" -> [@ EXCEPT !.mime = ""]]

InvalidBodies ==
    {[shape |-> "array",
      files |-> Invalidate(ManifestOf([j \in 1..MaxManifestLen |-> 100]),
                           MaxManifestLen, f)] : f \in Fields}

\* a body that lists the same record at every position: nothing in the
\* deserialisation rejects a repeated id
RepeatedBodies ==
    {[shape |-> "array",
      files |-> [j \in 1..MaxManifestLen |-> ManifestAsset(1, 100)]]}

RemoteBodies == Bodies \cup InvalidBodies \cup RepeatedBodies

\* the optional arguments are left out (the credentials are absent and the
\* numbers have their default_value_t) or given
OptionalArgs ==
    {[source_username   |-> NoneOpt, source_password   |-> NoneOpt,
      download_username |-> NoneOpt, download_password |-> NoneOpt,
      download_delay    |-> CliDefaultDownloadDelay,
      download_timeout  |-> CliDefaultDownloadTimeout,
      max_retries       |-> CliDefaultMaxRetries],
     [source_username   |-> Some("su"), source_password   |-> Some("sp"),
      download_username |-> Some("du"), download_password |-> Some("dp"),
      download_delay    |-> 0,
      download_timeout  |-> 10,
      max_retries       |-> 1]}

CliArgs ==
    {[assets_metadata   |-> m,
      destination       |-> d,
      max_concurrent    |-> k,
      base_url          |-> BaseUrl,
      source_username   |-> o.source_username,
      source_password   |-> o.source_password,
      download_username |-> o.download_username,
      download_password |-> o.download_password,
      download_delay    |-> o.download_delay,
      download_timeout  |-> o.download_timeout,
      max_retries       |-> o.max_retries] :
        m \in {NoneOpt, Some("url"), Some("file")},
        d \in {NoneOpt, Some(DownloadsRoot)},
        k \in 1..MaxConcurrentBound,
        o \in OptionalArgs}

\* main: `destination.unwrap_or_else(|| PathBuf::from("data"))`
DataRoot == <<"d", "a", "t", "a">>

Destination(args) ==
    IF IsSome(args.destination) THEN Unwrap(args.destination) ELSE DataRoot

\* what a previous run left in assets.json: a manifest of up to
\* MaxManifestLen records, each with the first changed value
CachedBodies ==
    {[shape |-> "wrapper", files |-> ManifestOf([j \in 1..n |-> 100])] :
        n \in 0..MaxManifestLen}

\* a server that answers every request, with the right length or an error
\* status, over a disk on which only the metadata stage can fail
EnvSync ==
    [responses |-> {r \in Responses : r.kind = "response" /\ r.len = 1},
     fs |-> {"ok"}, mkdir |-> {TRUE}, report |-> {TRUE},
     metadata |-> {"dir_err", "send_err", "status_err", "write_err",
                   "read_err", "ok"}]

\* the sync command starts; what will happen to download_metadata in this
\* run is one of the outcomes its source can have
InitSync ==
    /\ run_pc = "main"
    /\ cli \in CliArgs
    /\ remote \in RemoteBodies
    /\ cache \in {NoneOpt} \cup {Some(b) : b \in CachedBodies}
    /\ previous = cache
    /\ run_result = None
    /\ \E o \in EnvSync.metadata :
         /\ IF IsSome(cli.assets_metadata)
            THEN o \in MetadataOutcomes(Unwrap(cli.assets_metadata))
            ELSE o = "ok"
         /\ env = [EnvSync EXCEPT !.metadata = {o}]
    /\ config = DefaultConfig
    /\ assets = <<>>
    /\ next_idx = 1
    /\ queue = <<>>
    /\ sched_pc = "idle"
    /\ result = None
    /\ tpc = <<>>
    /\ retries = <<>>
    /\ last_error = <<>>
    /\ failed_downloads = <<>>
    /\ files = [p \in {get_local_path(b.files[k], DownloadsRoot) :
                          b \in {x \in RemoteBodies : Len(x.files) = MaxManifestLen},
                          k \in 1..MaxManifestLen} |-> 0]
    /\ report = NoneOpt
    /\ attempts = <<>>
    /\ requests = <<>>
    /\ recorded = <<>>
    /\ fetched = <<>>
    /\ writes = {}
    /\ waits = <<>>
    /\ last_status = <<>>
    /\ auth_sent = NoRequest
    /\ NoCall

NextSync ==
    \/ Main
    \/ DownloadMetadata
    \/ WriteCache
    \/ StartDownloads
    \/ SyncReturn
    \/ Next

SpecSync == InitSync /\ [][NextSync]_vars

\* ------------------------------------------ helper functions on their own
\* get_changed_assets(old_assets, new_assets) on lists of at most
\* MaxManifestLen records over two ids, ids repeated or not
Records == {ManifestAsset(k, ch) : k \in 1..2, ch \in ChangedValues}

AssetLists == UNION {[1..n -> Records] : n \in 0..MaxManifestLen}

ChangedCalls ==
    {[fn |-> "get_changed_assets", old_assets |-> o, new_assets |-> n] :
        o \in AssetLists, n \in AssetLists}

downloadVars == <<env, config, assets, next_idx, queue, sched_pc, result, tpc,
                  retries, last_error, failed_downloads, files, report,
                  attempts, requests, recorded, fetched, writes, waits, last_status,
                  auth_sent>>

\* strings of at most MaxPathLen characters, each a separator or c
Strs(c) == UNION {[1..n -> {Sep, c}] : n \in 0..MaxPathLen}

PathAsset(p, f) == [ManifestAsset(1, 100) EXCEPT !.path = p, !.filename = f]

PathAssets == {PathAsset(p, <<"f">>) : p \in Strs("p")}

LocalPathCalls ==
    {[fn |-> "get_local_path", asset |-> a, base_path |-> b] :
        a \in PathAssets, b \in Strs("d")}

UrlCalls ==
    {[fn |-> "get_download_url", asset |-> a, base_url |-> b] :
        a \in PathAssets, b \in {NoneOpt} \cup {Some(u) : u \in Strs("h")}}

\* manifests whose records differ in id and mime
Mimes == {"image/png", "text/plain"}

MimeRecords == {[ManifestAsset(k, 100) EXCEPT !.mime = m] : k \in 1..2, m \in Mimes}

MimeCalls ==
    {[fn |-> "group_by_mime", files |-> l] :
        l \in UNION {[1..n -> MimeRecords] : n \in 0..MaxManifestLen}}

\* groups.entry(asset.mime.clone()).or_default().push(asset.clone())
entry_insert(groups, asset) ==
    IF asset.mime \in DOMAIN groups
    THEN [groups EXCEPT ![asset.mime] = <<asset>>]
    ELSE groups @@ (asset.mime :> <<asset>>)

entry_push(groups, asset) ==
    IF asset.mime \in DOMAIN groups
    THEN [groups EXCEPT ![asset.mime] = Append(@, asset)]
    ELSE groups @@ (asset.mime :> <<asset>>)

\* DrupalFileAssetsWrapper::group_by_mime: a map from each mime to its
\* assets in manifest order
group_by_mime(manifest) ==
    LET groups[k \in 0..Len(manifest)] ==
            IF k = 0 THEN [m \in {} |-> <<>>]
            ELSE entry_push(groups[k - 1], manifest[k])
    IN groups[Len(manifest)]

\* records with every required field, with one of them empty, or with all
\* of them empty
AllEmpty(a) == [a EXCEPT !.id = "", !.filename = <<>>, !.uri = "", !.mime = ""]

ValidatedRecords ==
    UNION {{ManifestAsset(k, 100), AllEmpty(ManifestAsset(k, 100))} \cup
           {Invalidate(<<ManifestAsset(k, 100)>>, 1, f)[1] : f \in Fields} :
               k \in 1..2}

ValidateCalls ==
    {[fn |-> "validate", files |-> l] :
        l \in UNION {[1..n -> ValidatedRecords] : n \in 0..MaxManifestLen}}

\* format!("Asset {} validation failed: {}", asset.id, e)
ValidationError(asset, e) == <<"Asset ", asset.id, " validation failed: ", e>>

\* DrupalFileAssetsWrapper::validate from record k on: NoneOpt is Ok(())
RECURSIVE validate_from_last(_, _)
validate_from_last(manifest, k) ==
    IF k > Len(manifest) THEN NoneOpt
    ELSE LET later == validate_from_last(manifest, k + 1) IN
         IF IsSome(later) THEN later
         ELSE IF validate(manifest[k]) # "Ok"
         THEN Some(ValidationError(manifest[k], validate(manifest[k])))
         ELSE NoneOpt

RECURSIVE validate_from(_, _)
validate_from(manifest, k) ==
    IF k > Len(manifest) THEN NoneOpt
    ELSE IF validate(manifest[k]) # "Ok"
    THEN Some(ValidationError(manifest[k], validate(manifest[k])))
    ELSE validate_from(manifest, k + 1)

\* a u64 as four 16-bit limbs, the most significant first
LimbBase == 65536

u64(n) == <<0, 0, 0, n>>

U64Max == <<LimbBase - 1, LimbBase - 1, LimbBase - 1, LimbBase - 1>>

\* `n as u64` for an i64 n with -LimbBase <= n < LimbBase: the two's
\* complement bits of n read as an unsigned number
as_u64(n) ==
    IF n >= 0 THEN u64(n)
    ELSE <<LimbBase - 1, LimbBase - 1, LimbBase - 1, LimbBase + n>>

\* a >= b on u64 values
RECURSIVE u64_ge_from(_, _, _)
u64_ge_from(a, b, k) ==
    IF k > Len(a) THEN TRUE
    ELSE IF a[k] # b[k] THEN a[k] > b[k]
    ELSE u64_ge_from(a, b, k + 1)

u64_ge(a, b) == u64_ge_from(a, b, 1)

\* Duration::num_seconds of a duration in half seconds: the whole seconds,
\* rounded towards zero
num_seconds(d) == IF d >= 0 THEN d \div 2 ELSE 0 - ((0 - d) \div 2)

\* CliConfig::needs_sync, with Utc::now() as `now`
needs_sync(ttl, last_sync, now) ==
    IF IsSome(ttl) /\ IsSome(last_sync)
    THEN u64_ge(as_u64(num_seconds(now - Unwrap(last_sync))), Unwrap(ttl))
    ELSE TRUE

\* ttl in seconds, last_sync and the clock in half seconds
NeedsSyncCalls ==
    {[fn |-> "needs_sync", ttl |-> t, last_sync |-> l, now |-> n] :
        t \in {NoneOpt, Some(U64Max)} \cup {Some(u64(x)) : x \in 0..MaxTtl},
        l \in {NoneOpt} \cup {Some(x) : x \in 0..MaxTime},
        n \in 0..MaxTime}

NeedsSync ==
    /\ call.fn = "needs_sync"
    /\ ret = NoneOpt
    /\ ret' = Some(needs_sync(call.ttl, call.last_sync, call.now))
    /\ UNCHANGED <<runVars, call, downloadVars>>

Validate ==
    /\ call.fn = "validate"
    /\ ret = NoneOpt
    /\ ret' = Some(validate_from(call.files, 1))
    /\ UNCHANGED <<runVars, call, downloadVars>>

GetChangedAssets ==
    /\ call.fn = "get_changed_assets"
    /\ ret = NoneOpt
    /\ ret' = Some(get_changed_assets(call.old_assets, call.new_assets))
    /\ UNCHANGED <<runVars, call, downloadVars>>

GetLocalPath ==
    /\ call.fn = "get_local_path"
    /\ ret = NoneOpt
    /\ ret' = Some(get_local_path(call.asset, call.base_path))
    /\ UNCHANGED <<runVars, call, downloadVars>>

GetDownloadUrl ==
    /\ call.fn = "get_download_url"
    /\ ret = NoneOpt
    /\ ret' = Some(get_download_url(call.asset, [base_url |-> call.base_url]))
    /\ UNCHANGED <<runVars, call, downloadVars>>

GroupByMime ==
    /\ call.fn = "group_by_mime"
    /\ ret = NoneOpt
    /\ ret' = Some(group_by_mime(call.files))
    /\ UNCHANGED <<runVars, call, downloadVars>>

PureCalls ==
    ChangedCalls \cup LocalPathCalls \cup UrlCalls \cup MimeCalls \cup ValidateCalls
        \cup NeedsSyncCalls

\* nothing runs but one call of a helper function
InitPure ==
    /\ NoRun
    /\ call \in PureCalls
    /\ ret = NoneOpt
    /\ env = EnvSync
    /\ config = [max_concurrent |-> 1, download_delay |-> 0, max_retries |-> 0,
                 download_timeout |-> DefaultDownloadTimeout,
                 max_file_size |-> NoneOpt, base_url |-> NoneOpt,
                 username |-> NoneOpt, password |-> NoneOpt]
    /\ assets = <<>>
    /\ next_idx = 1
    /\ queue = <<>>
    /\ sched_pc = "idle"
    /\ result = None
    /\ tpc = <<>>
    /\ retries = <<>>
    /\ last_error = <<>>
    /\ failed_downloads = <<>>
    /\ files = <<>>
    /\ report = NoneOpt
    /\ attempts = <<>>
    /\ requests = <<>>
    /\ recorded = <<>>
    /\ fetched = <<>>
    /\ writes = {}
    /\ waits = <<>>
    /\ last_status = <<>>
    /\ auth_sent = NoRequest

NextPure ==
    \/ GetChangedAssets
    \/ GetLocalPath
    \/ GetDownloadUrl
    \/ GroupByMime
    \/ Validate
    \/ NeedsSync

SpecPure == InitPure /\ [][NextPure]_vars

\* ------------------------------------------------------------ properties
InFlight == {i \in Tasks : tpc[i] \in InFlightStates}
Returned == sched_pc = "done"
\* the records of the Failure Recorder that name asset i
RecordsOf(i) ==
    {k \in 1..Len(failed_downloads) :
        /\ failed_downloads[k].filename = assets[i].filename
        /\ failed_downloads[k].path = assets[i].path}
WrittenOk(i) == \E w \in writes : w.task = i /\ w.ok
RejectedBySize(i) ==
    \E k \in RecordsOf(i) : failed_downloads[k].error = "SizeLimit"
IsPrefix(s, t) == Len(s) <= Len(t) /\ SubSeq(t, 1, Len(s)) = s

\* C1: with max_concurrent = k, the tasks that have begun download_file and
\* have not reached Succeeded or Failed are never more than k.
C1_InFlightAtMostMaxConcurrent ==
    Cardinality(InFlight) <= config.max_concurrent

C1_Witness ==
    /\ config.max_concurrent > 1
    /\ Len(assets) > config.max_concurrent
    /\ Cardinality(InFlight) = config.max_concurrent
    /\ next_idx <= Len(assets)

\* C2: when download_files returns, every asset either had its bytes written
\* by a successful attempt or has exactly one record in the Failure Recorder,
\* and never both, whatever the configuration and the environment do.
C2_WrittenOrRecordedOnce ==
    Returned =>
        \A i \in Tasks :
            \/ WrittenOk(i) /\ Cardinality(RecordsOf(i)) = 0
            \/ ~WrittenOk(i) /\ Cardinality(RecordsOf(i)) = 1

\* C3: for every max_retries >= 0, an asset that reaches the retry loop and
\* whose fetch never succeeds is attempted exactly max_retries times and has
\* exactly one record in the Failure Recorder when download_files returns.
C3_AlwaysFailingAttemptedMaxRetriesRecordedOnce ==
    Returned =>
        \A i \in Tasks :
            (last_error[i] # Undeclared /\ ~fetched[i]) =>
                /\ attempts[i] = config.max_retries
                /\ Cardinality(RecordsOf(i)) = 1

\* C4: in a sync run that found a previous manifest cached, an asset of the
\* new manifest whose id is in the previous manifest with an equal changed
\* value is never fetched.
PreviousManifest == ParseMetadata(Unwrap(previous))

C4_UnchangedAssetNeverFetched ==
    (/\ run_pc \in {"download", "finished"}
     /\ sched_pc # "idle"
     /\ IsSome(previous)
     /\ IsSome(PreviousManifest))
    => \A i \in Tasks :
          ~IsChanged(Unwrap(PreviousManifest), assets[i]) =>
              (attempts[i] = 0 /\ requests[i] = 0)

\* C5: taking the result of a Failed task leaves download_files in its loop:
\* no result is returned, the backlog and the other tasks are untouched, and
\* once it has returned every task of a batch with failures is terminal.
C5_FailedTaskDoesNotAbortBatch ==
    /\ [][(/\ sched_pc = "next"
           /\ queue # <<>>
           /\ tpc[Head(queue)] = "Failed"
           /\ queue' = Tail(queue))
          => (/\ sched_pc' \in {"next", "delay"}
              /\ result' = None
              /\ next_idx' = next_idx
              /\ tpc' = tpc)]_vars
    /\ []((Returned /\ \E i \in Tasks : tpc[i] = "Failed")
            => \A j \in Tasks : tpc[j] \in Terminal)

C5_Witness ==
    /\ Returned
    /\ tpc[1] = "Failed"
    /\ \E j \in Tasks : j > 1 /\ tpc[j] = "Succeeded" /\ attempts[j] > 0

\* C6: download_files has left its loop only when no task is Pending or
\* Attempting any more.
C6_ReturnsAfterAllTerminal ==
    sched_pc \in {"report", "done"} => \A i \in Tasks : tpc[i] \in Terminal

C6_Witness ==
    /\ Returned
    /\ Len(assets) > 1
    /\ \E i \in Tasks : tpc[i] = "Succeeded"
    /\ \E i \in Tasks : tpc[i] = "Failed" /\ retries[i] > 1

\* C7: with max_file_size set, an asset is rejected by the size limit exactly
\* when its declared size is strictly greater than max_file_size; a rejected
\* asset has one record, no attempt, no request and no retry.
C7_SizeLimitRejectsStrictlyGreater ==
    \A i \in Tasks :
        /\ tpc[i] # "Pending" =>
              (RejectedBySize(i) <=>
                 (IsSome(config.max_file_size)
                    /\ assets[i].size > Unwrap(config.max_file_size)))
        /\ RejectedBySize(i) =>
              /\ tpc[i] = "Failed"
              /\ Cardinality(RecordsOf(i)) = 1
              /\ recorded[i] = 1
              /\ attempts[i] = 0
              /\ requests[i] = 0
              /\ retries[i] = 0

C7_Witness ==
    /\ Returned
    /\ IsSome(config.max_file_size)
    /\ RejectedBySize(1)
    /\ assets[1].size = Unwrap(config.max_file_size) + 1

\* C8: bytes reach a destination only from an attempt with a success status
\* whose byte length equals the declared size; an attempt that ends with a
\* non-success status or a size mismatch writes nothing and counts as one
\* failed attempt, retried while attempts remain.
C8_WriteOnlyAfterStatusAndSizeCheck ==
    /\ [](\A w \in writes :
             w.status = HttpOk /\ w.len = assets[w.task].size)
    /\ [][\A i \in Tasks :
             (/\ tpc[i] = "Attempting"
              /\ tpc'[i] # "Attempting"
              /\ tpc'[i] # "Succeeded"
              /\ last_error'[i] \in {"HTTP 500", "SizeMismatch"})
             => (/\ files' = files
                 /\ writes' = writes
                 /\ retries'[i] = retries[i] + 1
                 /\ tpc'[i] = IF retries'[i] < config.max_retries
                               THEN "Backoff" ELSE "Failed")]_vars

C8_Witness ==
    /\ Returned
    /\ tpc[1] = "Succeeded"
    /\ retries[1] = 1
    /\ last_error[1] = "SizeMismatch"
    /\ files[DestOf(1)] = assets[1].size

\* C9: the Failure Recorder only grows, each earlier content being a prefix
\* of each later one, and it holds every record any worker appended.
C9_RecorderAppendOnlyLossless ==
    /\ [][IsPrefix(failed_downloads, failed_downloads')]_vars
    /\ [](\A i \in Tasks : Cardinality(RecordsOf(i)) = recorded[i])

C9_Witness ==
    /\ Returned
    /\ Len(failed_downloads) > 1
    /\ config.max_concurrent > 1
    /\ failed_downloads[1].filename = assets[2].filename
    /\ failed_downloads[2].filename = assets[1].filename

\* C10 as stated: download_files returns success whenever the scheduler
\* completed.
C10_AlwaysReturnsOk ==
    Returned => result = "Ok"

\* C10 as amended: download_files returns success whenever the scheduler
\* completed and the failure report, due only when there are failures, could
\* be saved; the only error it returns is that of saving the report, and
\* failed files alone never make it return one.
C10_ReturnsOkUnlessReportWriteFails ==
    /\ sched_pc # "done" => result = None
    /\ Returned =>
          /\ result \in {"Ok", "ReportWriteError"}
          /\ result = "ReportWriteError" =>
                (failed_downloads # <<>> /\ report = NoneOpt)
          /\ (failed_downloads = <<>> \/ report # NoneOpt) => result = "Ok"

C10_Witness ==
    /\ Returned
    /\ result = "Ok"
    /\ Len(assets) > 1
    /\ \A i \in Tasks : tpc[i] = "Failed"

\* C11 as stated: failed_downloads.json is written at the end of a run exactly
\* when the Failure Recorder is non-empty, and then holds every record.
C11_ReportWrittenIffFailures ==
    Returned =>
        /\ IsSome(report) <=> failed_downloads # <<>>
        /\ IsSome(report) => Unwrap(report) = failed_downloads

\* C11 as amended: the report is written exactly when the Failure Recorder is
\* non-empty and saving it succeeds, and then holds every record; with an
\* empty recorder nothing is written, and a save that fails is what
\* download_files returns.
C11_ReportWrittenIffFailuresAndSaved ==
    /\ ~Returned => report = NoneOpt
    /\ Returned =>
          /\ IsSome(report) <=> (failed_downloads # <<>> /\ result = "Ok")
          /\ IsSome(report) => Unwrap(report) = failed_downloads
          /\ (failed_downloads # <<>> /\ ~IsSome(report)) =>
                result = "ReportWriteError"

C11_Witness ==
    /\ Returned
    /\ IsSome(report)
    /\ Len(Unwrap(report)) > 1
    /\ \E i \in Tasks : tpc[i] = "Succeeded"

\* C12: if a record of the loaded manifest has an empty id, filename, uri or
\* mime, loading fails and no asset of the manifest reaches the scheduler.
HasInvalidRecord(manifest) ==
    \E k \in 1..Len(manifest) : validate(manifest[k]) # "Ok"

C12_InvalidManifestNeverScheduled ==
    (IsSome(cli.assets_metadata) /\ HasInvalidRecord(remote.files)) =>
        /\ run_pc \in {"main", "metadata", "caching", "finished"}
        /\ run_pc = "finished" => run_result \notin {None, "Ok"}
        /\ sched_pc = "idle"
        /\ assets = <<>>
        /\ \A i \in DOMAIN attempts : attempts[i] = 0

\* C13: a fatal error of the manifest stage (the fetch, a non-success status,
\* a body of neither shape) ends the run with an error before any download
\* task is started and leaves the Failure Recorder empty.
MetadataOutcome == CHOOSE o \in env.metadata : TRUE
ManifestStageFails ==
    /\ IsSome(cli.assets_metadata)
    /\ MetadataOutcome # "ok" \/ remote.shape = "other"

C13_FatalManifestErrorStartsNoDownload ==
    ManifestStageFails =>
        /\ run_pc \in {"main", "metadata", "caching", "finished"}
        /\ run_pc = "finished" => run_result \notin {None, "Ok"}
        /\ sched_pc = "idle"
        /\ assets = <<>>
        /\ tpc = <<>>
        /\ failed_downloads = <<>>
        /\ writes = {}
        /\ report = NoneOpt

C13_Witness ==
    /\ run_pc = "finished"
    /\ cli.assets_metadata = Some("url")
    /\ MetadataOutcome = "ok"
    /\ remote.shape = "other"
    /\ run_result = "ParseError"

\* C14: get_changed_assets(old, new) is the subsequence of new, in new's
\* order, of the records whose id is absent from old or whose changed value
\* differs from the old record with that id; every record with an id absent
\* from old is kept, and with an empty old the result is the whole of new.
IdAbsent(old, n) == \A k \in 1..Len(old) : old[k].id # n.id

\* n differs from every old record with its id / from none of them
DiffersFromOld(old, n) ==
    \A k \in 1..Len(old) : old[k].id = n.id => old[k].changed # n.changed

SameAsOld(old, n) ==
    /\ ~IdAbsent(old, n)
    /\ \A k \in 1..Len(old) : old[k].id = n.id => old[k].changed = n.changed

\* the records of s at the positions keep marks, in the order of s
Kept(s, keep) ==
    LET F[k \in 0..Len(s)] ==
            IF k = 0 THEN <<>>
            ELSE IF keep[k] THEN Append(F[k - 1], s[k]) ELSE F[k - 1]
    IN F[Len(s)]

C14_DeltaIsChangedSubsequence ==
    (call.fn = "get_changed_assets" /\ IsSome(ret)) =>
        LET old == call.old_assets
            new == call.new_assets
        IN
        /\ \E keep \in [1..Len(new) -> BOOLEAN] :
             /\ Unwrap(ret) = Kept(new, keep)
             /\ \A k \in 1..Len(new) :
                  /\ (IdAbsent(old, new[k]) \/ DiffersFromOld(old, new[k])) => keep[k]
                  /\ SameAsOld(old, new[k]) => ~keep[k]
        /\ old = <<>> => Unwrap(ret) = new

C14_Witness ==
    /\ call.fn = "get_changed_assets"
    /\ IsSome(ret)
    /\ Len(call.old_assets) = MaxManifestLen
    /\ Len(call.new_assets) = MaxManifestLen
    /\ Len(Unwrap(ret)) = 1
    /\ \E k \in 1..Len(call.new_assets) : IdAbsent(call.old_assets, call.new_assets[k])

\* C15: for every manifest M the loader accepts, get_changed_assets(M, M) is
\* empty.
C15_DeltaOfSameManifestEmpty ==
    (/\ call.fn = "get_changed_assets"
     /\ IsSome(ret)
     /\ call.old_assets = call.new_assets
     /\ IsSome(ParseMetadata([shape |-> "array", files |-> call.new_assets])))
        => Unwrap(ret) = <<>>

\* C16: after failed attempt k (0-based) the task waits 2^k seconds before
\* attempt k+1, so the waits of one asset are 1, 2, 4, ...; no wait follows
\* the last allowed attempt.
C16_BackoffStartsAtOneAndDoubles ==
    \A i \in DOMAIN waits :
        /\ \A k \in 1..Len(waits[i]) : waits[i][k] = 2 ^ (k - 1)
        /\ Len(waits[i]) < config.max_retries \/ config.max_retries = 0

\* C16, amended: the wait after the k-th failed attempt (counted from 1) is
\* 2^k seconds, so the waits of one asset are 2, 4, 8, ...; every failed
\* attempt but the last allowed one is followed by exactly one wait.
C16_BackoffStartsAtTwoAndDoubles ==
    \A i \in DOMAIN waits :
        /\ \A k \in 1..Len(waits[i]) : waits[i][k] = 2 ^ k
        /\ Len(waits[i]) < config.max_retries \/ config.max_retries = 0
        /\ Len(waits[i]) = IF retries[i] < config.max_retries \/ retries[i] = 0
                           THEN retries[i]
                           ELSE retries[i] - 1

C16_Witness ==
    \E i \in DOMAIN waits :
        /\ Len(waits[i]) = 2
        /\ tpc[i] = "Failed"
        /\ retries[i] = config.max_retries

\* C17: after the scheduler loop takes a task's result it waits
\* download_delay before it admits a replacement from the backlog: taking a
\* result with a positive delay starts the wait, and until the wait is over
\* nothing is admitted and no task begins.
ResultTaken == queue # <<>> /\ queue' = Tail(queue)

C17_DelayBeforeReplacement ==
    [][/\ (ResultTaken /\ config.download_delay > 0) => sched_pc' = "delay"
       /\ sched_pc = "delay" =>
             /\ next_idx' = next_idx
             /\ queue' = queue
             /\ tpc' = tpc
             /\ attempts' = attempts]_vars

C17_Witness ==
    /\ sched_pc = "delay"
    /\ next_idx <= Len(assets)
    /\ Len(queue) < config.max_concurrent
    /\ \E i \in Tasks : tpc[i] \in Terminal

\* C18: get_local_path(asset, root) is root without its trailing separators,
\* one separator, then asset.path without its leading separators when path
\* is non-empty, and asset.filename when path is empty.
AllSeps(s) == \A k \in 1..Len(s) : s[k] = Sep

\* r is s without the separators it ends with / begins with
WithoutTrailing(s, r) ==
    \E n \in 0..Len(s) :
        /\ r = SubSeq(s, 1, n)
        /\ AllSeps(SubSeq(s, n + 1, Len(s)))
        /\ n > 0 => s[n] # Sep

WithoutLeading(s, r) ==
    \E n \in 0..Len(s) :
        /\ r = SubSeq(s, n + 1, Len(s))
        /\ AllSeps(SubSeq(s, 1, n))
        /\ n < Len(s) => s[n + 1] # Sep

C18_LocalPathJoinsRootAndPath ==
    (call.fn = "get_local_path" /\ IsSome(ret)) =>
        \E n \in 0..Len(call.base_path), m \in 0..Len(call.asset.path) :
            LET root == SubSeq(call.base_path, 1, n)
                rest == SubSeq(call.asset.path, m + 1, Len(call.asset.path))
            IN
            /\ WithoutTrailing(call.base_path, root)
            /\ WithoutLeading(call.asset.path, rest)
            /\ Unwrap(ret) = root \o <<Sep>> \o
                    (IF call.asset.path = <<>> THEN call.asset.filename ELSE rest)

C18_Witness ==
    /\ call.fn = "get_local_path"
    /\ IsSome(ret)
    /\ Len(call.base_path) > 1
    /\ call.base_path[Len(call.base_path)] = Sep
    /\ Len(call.asset.path) > 1
    /\ call.asset.path[1] = Sep
    /\ Len(Unwrap(ret)) = 3

\* C19: for an asset whose path is empty, filename takes the place of path
\* both in the fetch URL (base_url / filename) and in the local destination
\* (root / filename).
EndsWithName(s, name) ==
    /\ Len(s) > Len(name)
    /\ SubSeq(s, Len(s) - Len(name) + 1, Len(s)) = name
    /\ s[Len(s) - Len(name)] = Sep

C19_EmptyPathUsesFilenameInUrlAndPath ==
    (IsSome(ret) /\ call.fn \in {"get_local_path", "get_download_url"}
                 /\ call.asset.path = <<>>) =>
        /\ call.fn = "get_local_path" => EndsWithName(Unwrap(ret), call.asset.filename)
        /\ (call.fn = "get_download_url" /\ IsSome(call.base_url)) =>
              /\ IsSome(Unwrap(ret))
              /\ EndsWithName(Unwrap(Unwrap(ret)), call.asset.filename)

\* C20: the groups of group_by_mime, put together, hold the same multiset of
\* asset ids as the manifest, and every asset lies in the group of its mime.
CountId(s, id) == Cardinality({k \in 1..Len(s) : s[k].id = id})

RECURSIVE CountInGroups(_, _, _)
CountInGroups(groups, keys, id) ==
    IF keys = {} THEN 0
    ELSE LET m == CHOOSE x \in keys : TRUE IN
         CountId(groups[m], id) + CountInGroups(groups, keys \ {m}, id)

C20_GroupsPartitionManifestByMime ==
    (call.fn = "group_by_mime" /\ IsSome(ret)) =>
        LET groups == Unwrap(ret) IN
        /\ \A k \in 1..Len(call.files) :
             CountInGroups(groups, DOMAIN groups, call.files[k].id)
                 = CountId(call.files, call.files[k].id)
        /\ \A m \in DOMAIN groups : \A j \in 1..Len(groups[m]) :
             /\ groups[m][j].mime = m
             /\ \E k \in 1..Len(call.files) : call.files[k] = groups[m][j]
        /\ \A k \in 1..Len(call.files) :
             /\ call.files[k].mime \in DOMAIN groups
             /\ \E j \in 1..Len(groups[call.files[k].mime]) :
                  groups[call.files[k].mime][j] = call.files[k]

C20_Witness ==
    /\ call.fn = "group_by_mime"
    /\ IsSome(ret)
    /\ Len(call.files) = MaxManifestLen
    /\ \E m \in DOMAIN Unwrap(ret) : Len(Unwrap(ret)[m]) > 1
    /\ \E j, k \in 1..Len(call.files) :
         j # k /\ call.files[j].id = call.files[k].id

\* C21: within a run assets.json is replaced by the new manifest only after
\* the run's downloads have been dispatched; a run that fails at the
\* manifest stage leaves the cache as it was.
DownloadsDispatched == run_pc \in {"download", "finished"} /\ sched_pc # "idle"

C21_CacheReplacedOnlyAfterDispatch ==
    /\ cache # previous => DownloadsDispatched
    /\ (run_pc = "finished" /\ sched_pc = "idle") => cache = previous

\* C22: assets.json is replaced atomically: whoever reads it while a sync
\* runs finds the complete old content or the complete new content, never
\* an empty or partly written file.
C22_CacheAlwaysCompleteOldOrNew ==
    cache \in {previous, Some(remote)}

\* C23: for a finite batch, max_concurrent >= 1 and attempts that each
\* complete or time out, download_files eventually returns with every task
\* terminal; a worker that appends to the Failure Recorder goes on to its
\* terminal state.
C23_DownloadFilesEventuallyReturns ==
    <>(Returned /\ \A i \in Tasks : tpc[i] \in Terminal)

C23_Witness ==
    /\ Returned
    /\ config.max_concurrent >= 1
    /\ Len(failed_downloads) > 1
    /\ \E i \in Tasks : retries[i] > 1
    /\ \E i \in Tasks : tpc[i] = "Succeeded"

\* C24: a filesystem error for one asset, from creating the destination's
\* parent directory or from writing the file, is retried like a transfer
\* error: max_retries attempts in total and, on exhaustion, exactly one
\* record for the asset.
DirCreationFailed(i) ==
    tpc[i] = "Failed" /\ last_error[i] = Undeclared /\ ~RejectedBySize(i)

FilesystemFailure(i) ==
    \/ DirCreationFailed(i)
    \/ tpc[i] = "Failed" /\ last_error[i] \in {"Write", "Permissions"}

C24_FilesystemErrorRetriedAndRecordedOnce ==
    \A i \in Tasks :
        (FilesystemFailure(i) /\ config.max_retries >= 1) =>
            /\ attempts[i] = config.max_retries
            /\ recorded[i] = 1

\* C25: within one task the steps are sequential and at most one attempt of
\* an asset is in flight: the size-limit check and the path resolution come
\* before the first attempt, and attempt n+1 begins only after attempt n has
\* failed and the backoff wait after it is over.
AttemptsInFlight(i) ==
    attempts[i] - retries[i] - (IF tpc[i] = "Succeeded" THEN 1 ELSE 0)

C25_StepsOfOneTaskSequential ==
    /\ [](\A i \in Tasks :
            /\ AttemptsInFlight(i) = (IF tpc[i] = "Attempting" THEN 1 ELSE 0)
            /\ attempts[i] > 0 =>
                  /\ tpc[i] \notin {"Pending", "CreatingDir"}
                  /\ IsSome(config.max_file_size) =>
                        assets[i].size <= Unwrap(config.max_file_size))
    /\ [][\A i \in Tasks :
            attempts'[i] # attempts[i] =>
                /\ attempts'[i] = attempts[i] + 1
                /\ tpc'[i] = "Attempting"
                /\ \/ tpc[i] = "CreatingDir" /\ attempts[i] = 0
                   \/ /\ tpc[i] = "Backoff"
                      /\ retries[i] = attempts[i]
                      /\ Len(waits[i]) = attempts[i]]_vars

C25_Witness ==
    \E i, j \in Tasks :
        /\ i # j
        /\ tpc[i] = "Attempting"
        /\ attempts[i] > 1
        /\ tpc[j] \in InFlightStates

\* C26: a retryable failure is recorded only after exhaustion: once an
\* attempt of an asset succeeds the task is Succeeded, no further attempt of
\* it is made and no record for it is ever appended, whatever failed before.
C26_SuccessEndsTaskUnrecorded ==
    /\ [](\A i \in Tasks :
            /\ tpc[i] = "Succeeded" =>
                  /\ recorded[i] = 0
                  /\ RecordsOf(i) = {}
                  /\ attempts[i] = retries[i] + 1
            /\ recorded[i] > 0 => tpc[i] = "Failed")
    /\ [][\A i \in Tasks :
            tpc[i] = "Succeeded" =>
                /\ tpc'[i] = "Succeeded"
                /\ attempts'[i] = attempts[i]
                /\ recorded'[i] = recorded[i]]_vars

C26_Witness ==
    \E i \in Tasks :
        /\ tpc[i] = "Succeeded"
        /\ retries[i] > 0
        /\ Returned

\* C27: the record appended after retry exhaustion carries the filename and
\* the path of the failed asset and the error of its last attempt, not of
\* an earlier one; when every attempt returned HTTP 500 the recorded error
\* mentions HTTP 500.
ExhaustionRecords(i) ==
    {k \in RecordsOf(i) : failed_downloads[k].error # "SizeLimit"}

\* every request of task i was answered, and never with a success status
EveryAttemptGotServerError(i) ==
    /\ \A r \in env.responses : r.kind = "response"
    /\ attempts[i] > 0
    /\ requests[i] = attempts[i]
    /\ ~fetched[i]

C27_RecordCarriesAssetAndLastError ==
    /\ \A k \in 1..Len(failed_downloads) :
         \E i \in Tasks :
            /\ tpc[i] = "Failed"
            /\ failed_downloads[k].filename = assets[i].filename
            /\ failed_downloads[k].path = assets[i].path
    /\ \A i \in Tasks : \A k \in ExhaustionRecords(i) :
         /\ retries[i] = config.max_retries
         /\ failed_downloads[k].error = last_error[i]
         /\ failed_downloads[k].error = "HTTP 500" <=> last_status[i] = HttpServerError
         /\ EveryAttemptGotServerError(i) => failed_downloads[k].error = "HTTP 500"

C27_Witness ==
    \E i \in Tasks : \E k \in ExhaustionRecords(i) :
        /\ Returned
        /\ fetched[i]
        /\ attempts[i] > 1
        /\ last_status[i] = HttpServerError
        /\ failed_downloads[k].error = "HTTP 500"

\* C28: every successfully downloaded asset is written at the path
\* get_local_path gives under the destination root of the run; when every
\* fetch succeeds with the declared size the Failure Recorder stays empty
\* and each asset has its file there.
C28_SucceededAssetWrittenUnderDestination ==
    (run_pc \in {"download", "finished"} /\ sched_pc # "idle") =>
        \A i \in Tasks :
            tpc[i] = "Succeeded" =>
                LET p == get_local_path(assets[i], Destination(cli)) IN
                p \in DOMAIN files /\ files[p] = assets[i].size

\* C29: the declared size constrains a download only when it is present:
\* for an asset without size the size-limit check is skipped and a response
\* with a success status is accepted and written whatever its length.
C29_AbsentSizeNeverRejectsADownload ==
    \A i \in Tasks :
        assets[i].size = AbsentSize =>
            /\ ~RejectedBySize(i)
            /\ last_error[i] # "SizeMismatch"
            /\ (last_status[i] = HttpOk /\ last_error[i] = None) => WrittenOk(i)

\* C30: manifest validation reports the first invalid record in manifest
\* order and stops there; its error names that record's id, or "unknown"
\* when the empty field is the id itself.
IsEmptyField(a, f) == IF f = "filename" THEN a[f] = <<>> ELSE a[f] = ""

RequiredFields ==
    <<[field |-> "id", missing |-> "Missing ID"],
      [field |-> "filename", missing |-> "Missing filename"],
      [field |-> "uri", missing |-> "Missing URI"],
      [field |-> "mime", missing |-> "Missing MIME type"]>>

EmptyFieldsOf(a) ==
    {n \in 1..Len(RequiredFields) : IsEmptyField(a, RequiredFields[n].field)}

InvalidRecords(manifest) == {k \in 1..Len(manifest) : EmptyFieldsOf(manifest[k]) # {}}

Least(S) == CHOOSE x \in S : \A y \in S : x <= y

\* the validation of call.files reported its first invalid record under
\* the name given
ReportsFirstInvalidAs(name(_)) ==
    LET bad == InvalidRecords(call.files) IN
    IF bad = {} THEN Unwrap(ret) = NoneOpt
    ELSE LET a == call.files[Least(bad)] IN
         /\ IsSome(Unwrap(ret))
         /\ Unwrap(Unwrap(ret)) =
               <<"Asset ", name(a), " validation failed: ",
                 RequiredFields[Least(EmptyFieldsOf(a))].missing>>

IdOrUnknown(a) == IF a.id = "" THEN "unknown" ELSE a.id

IdAsIs(a) == a.id

C30_FirstInvalidRecordNamedOrUnknown ==
    (call.fn = "validate" /\ IsSome(ret)) => ReportsFirstInvalidAs(IdOrUnknown)

\* C30, amended: the error names the id of the first invalid record as it
\* is, the empty string when the id is the empty field.
C30_FirstInvalidRecordNamedById ==
    (call.fn = "validate" /\ IsSome(ret)) => ReportsFirstInvalidAs(IdAsIs)

C30_Witness ==
    /\ call.fn = "validate"
    /\ IsSome(ret)
    /\ Len(call.files) = MaxManifestLen
    /\ InvalidRecords(call.files) = {MaxManifestLen - 1, MaxManifestLen}
    /\ call.files[MaxManifestLen - 1].id = ""
    /\ call.files[MaxManifestLen].id # ""
    /\ IsSome(Unwrap(ret))

\* C31: a run that fetched the manifest from a URL leaves the raw body in
\* assets.json, a run whose source is a local file does not write it, and a
\* run given no source loads the manifest a previous run cached instead of
\* failing.
C31_CacheWrittenFromUrlAndReusedWithoutSource ==
    /\ (cli.assets_metadata = Some("url") /\ run_pc \in {"configure", "download"})
          => cache = Some(remote)
    /\ cli.assets_metadata = Some("file") => cache = previous
    /\ (/\ cli.assets_metadata = NoneOpt
        /\ IsSome(previous)
        /\ IsSome(PreviousManifest)
        /\ run_pc = "finished")
          => run_result # "NoMetadataError"

\* C32: no two tasks work on the same Asset Record at the same time: each
\* element of the input has its own task, and two tasks in flight together
\* never have the same id or the same destination path.
C32_TasksInFlightDifferInIdAndPath ==
    \A i, j \in {t \in DOMAIN tpc : tpc[t] \in InFlightStates} :
        i # j => /\ assets[i].id # assets[j].id
                 /\ DestOf(i) # DestOf(j)

\* C33: the credentials of the two fetch stages are kept apart: the request
\* of the manifest carries the source username/password only, the requests
\* of files carry the download username/password only, and neither pair is
\* sent in a request of the other stage.
SourceCredentials == basic_auth(cli.source_username, cli.source_password)
DownloadCredentials == basic_auth(cli.download_username, cli.download_password)

C33_CredentialsOfTheStagesKeptApart ==
    /\ auth_sent.metadata \subseteq {SourceCredentials}
    /\ auth_sent.files \subseteq {DownloadCredentials}

\* C34: the Download Config of a sync run carries the max_concurrent,
\* download_delay, download_timeout and max_retries of the command line, and
\* no asset is attempted more often than the max_retries given there.
C34_ConfigCarriesCommandLineValues ==
    run_pc = "download" =>
        /\ config.max_concurrent = cli.max_concurrent
        /\ config.download_delay = cli.download_delay
        /\ config.download_timeout = cli.download_timeout
        /\ config.max_retries = cli.max_retries
        /\ \A i \in DOMAIN attempts : attempts[i] <= cli.max_retries

\* C35: tasks are admitted in input order and a slot of the queue is released
\* only in input order: with max_concurrent = k, the task at position i + k
\* has not begun before the task at position i is terminal, also when tasks
\* between the two finished earlier.
C35_SlotReleasedInInputOrder ==
    /\ \A i \in DOMAIN tpc : tpc[i] # "Pending" => i < next_idx
    /\ \A m, n \in 1..Len(queue) : m < n => queue[m] < queue[n]
    /\ \A i \in DOMAIN tpc :
         (i + config.max_concurrent \in DOMAIN tpc
            /\ tpc[i + config.max_concurrent] # "Pending") => tpc[i] \in Terminal

\* the second task has finished while the first is still in flight, and the
\* third waits although download_files is polling the stream
C35_Witness ==
    /\ config.max_concurrent = 2
    /\ sched_pc = "next"
    /\ tpc[1] \in InFlightStates
    /\ tpc[2] \in Terminal
    /\ tpc[3] = "Pending"
    /\ queue = <<1, 2>>

\* C36: the failure report written by one download_files call holds only
\* the records of assets that failed during that call: when download_files
\* is called again on the same Downloader, the records of the earlier call
\* are neither in the Failure Recorder nor in the new report.
RECURSIVE SumOver(_, _)
SumOver(f, dom) ==
    IF dom = {} THEN 0
    ELSE LET i == CHOOSE x \in dom : TRUE IN f[i] + SumOver(f, dom \ {i})

\* the records appended since the current call began
RecordedByThisCall == SumOver(recorded, DOMAIN recorded)

C36_RecorderAndReportHoldOnlyThisCall ==
    /\ Len(failed_downloads) = RecordedByThisCall
    /\ (sched_pc = "done" /\ result = "Ok" /\ failed_downloads # <<>>) =>
          /\ IsSome(report)
          /\ Len(Unwrap(report)) = RecordedByThisCall

\* C37: needs_sync returns false if and only if both ttl and last_sync are
\* set and the whole seconds elapsed since last_sync are fewer than ttl; when
\* last_sync lies later than the current time (negative elapsed time) it
\* returns false.
ElapsedSecs == num_seconds(call.now - Unwrap(call.last_sync))

FewerThanTtl(secs, ttl) == ttl = U64Max \/ (ttl[1] = 0 /\ ttl[2] = 0 /\ ttl[3] = 0 /\ secs < ttl[4])

C37_NeedsSyncFalseIffWithinTtl ==
    (call.fn = "needs_sync" /\ IsSome(ret)) =>
        (Unwrap(ret) = FALSE <=>
            /\ IsSome(call.ttl)
            /\ IsSome(call.last_sync)
            /\ FewerThanTtl(ElapsedSecs, Unwrap(call.ttl)))

====
